---- MODULE Spec2Model ----
(***************************************************************************)
(* Model of the dimmable-light firmware.                                   *)
(*                                                                         *)
(* Two dispatchers live in the sources:                                    *)
(*   - the monolithic transport loop of transport.rs (connection_task,     *)
(*     open_connection, handle_message, update_state), which owns the      *)
(*     socket and the LEDC channel and dispatches inline;                  *)
(*   - the decoupled device-control loop of light.rs (app_task), fed by    *)
(*     the library transport_task through the two TransportChannels that   *)
(*     main.rs creates.                                                    *)
(* `design` selects one of them at boot and never changes.                 *)
(***************************************************************************)
EXTENDS Integers, Sequences, FiniteSets, TLC

VARIABLES
    design,             \* which dispatcher this build runs
    pc,                 \* position of the transport loop
    err,                \* error carried out of open_connection ("none" if none)
    waited,             \* seconds the loop has slept since its last attempt ended
    attempts,           \* connect attempts of the current failure streak
    fails,              \* connect failures of the current failure streak
    message_len,        \* declared length of the frame being received
    got,                \* body bytes of that frame delivered so far
    sentKinds,          \* kinds of the frames written on the current socket
    wire,               \* last frame written to the socket
    duty,               \* duty percentage applied to the LEDC channel
    current_brightness, \* the dispatcher's brightness cell
    last,               \* what the dispatcher did with the last event
    incoming,           \* TransportChannels.incoming
    outgoing,           \* TransportChannels.outgoing
    a_pc,               \* position of app_task
    pending             \* notification app_task is sending

vars == <<design, pc, err, waited, attempts, fails, message_len, got,
          sentKinds, wire, duty, current_brightness, last,
          incoming, outgoing, a_pc, pending>>

connVars == <<pc, err, waited, attempts, fails, message_len, got>>
wireVars == <<sentKinds, wire>>
devVars  == <<duty, current_brightness, last>>
appVars  == <<incoming, outgoing, a_pc, pending>>

(***************************************************************************)
(* Build-time configuration and program constants                          *)
(***************************************************************************)
DEVICE_ID == "light-1"
OTHER_ID  == "light-2"
DeviceIds == {DEVICE_ID, OTHER_ID}

SIGNATURE_LEN   == 64
RECONNECT_DELAY == 5
HEAP_SIZE       == 72 * 1024
BRIGHTNESS_MIN  == 0
BRIGHTNESS_MAX  == 100
LED_STRIP_MAX   == 100
STARTUP_DUTY    == 100
POWER_ON_VALUE  == 1
POWER_OFF_VALUE == 0
INITIAL_BRIGHTNESS == 0

(***************************************************************************)
(* Bounds of the model                                                     *)
(***************************************************************************)
ChunkSize   == 48   \* bytes one TCP segment delivers
InPayload   == 40   \* payload bytes of a well-sized inbound frame
IdentifyLen == 22   \* serialized bytes of an Identify message
NotifyLen   == 90   \* serialized bytes of an UpdateNotification
MaxSent     == 3    \* frames remembered per socket
MaxStreak   == 3    \* connect attempts counted per failure streak
ChannelCap  == 1    \* capacity of each TransportChannels queue

NoValue == 0 - 1       \* Option::None of a numeric field

ReqLevels == {0, 40, 70, 130}

(***************************************************************************)
(* Messages                                                                *)
(***************************************************************************)
\* DeviceStateUpdate as transport.rs sees it: LedStrip{power, brightness}
\* with optional fields, or the update of another device kind.
MonoUpdates ==
    [kind : {"LedStrip"}, power : {"none", "true", "false"},
     brightness : {NoValue} \cup ReqLevels]
    \cup {[kind |-> "Switch", power |-> "none", brightness |-> NoValue]}

\* AttributeUpdate as light.rs sees it.
AppUpdates ==
    [attr : {"Power"}, value : {0, 1}]
    \cup [attr : {"Brightness"}, value : ReqLevels]
    \cup {[attr |-> "Color", value |-> 0]}

NoUpdate == [attr |-> "none", value |-> NoValue]

DeviceBoundMessages(updates) ==
    [type : {"UpdateCommand"}, device_id : DeviceIds, update : updates]
    \cup [type : {"StateQuery"}, device_id : DeviceIds, update : {NoUpdate}]
    \cup {[type |-> "Other", device_id |-> DEVICE_ID, update |-> NoUpdate]}

MonoMessages == DeviceBoundMessages(MonoUpdates)

\* Messages for another device differ from those for this one in the id
\* alone; one update of each attribute stands for them.
AppMessages ==
    {m \in DeviceBoundMessages(AppUpdates) :
        m.device_id = OTHER_ID /\ m.type = "UpdateCommand"
            => m.update \in {[attr |-> "Brightness", value |-> 70],
                             [attr |-> "Power", value |-> 1]}}

Identify == [type |-> "Identify", device_id |-> DEVICE_ID]

UpdateNotification(id, state) ==
    [type |-> "UpdateNotification", device_id |-> id, reachable |-> TRUE,
     new_state |-> state]

EncodedLen(m) == IF m.type = "Identify" THEN IdentifyLen ELSE NotifyLen

(***************************************************************************)
(* Hardware: the LEDC channel                                              *)
(***************************************************************************)
AsU8(x) == x % 256

\* Outcomes set_duty can have for a duty percentage.
SetDutyResults(pct) == IF pct > 100 THEN {FALSE} ELSE BOOLEAN

\* The channel's duty after a set_duty call.
DutyAfter(ok, pct, old) == IF ok THEN pct ELSE old

(***************************************************************************)
(* transport.rs: state handling of the monolithic dispatcher               *)
(***************************************************************************)
Min(a, b) == IF a < b THEN a ELSE b

\* The requested brightness taken as it comes, without the cap at 100.
NewBrightness_Uncapped(new_state) ==
    IF new_state.power = "false" THEN 0 ELSE new_state.brightness

\* update_state, lines 141-145: the brightness to write, or NoValue.
\* Option ordering makes None.min(Some(100)) = None.
NewBrightness(new_state) ==
    IF new_state.power = "false" THEN 0
    ELSE IF new_state.brightness = NoValue THEN NoValue
    ELSE Min(new_state.brightness, LED_STRIP_MAX)

\* update_state, lines 150-154: the cell after the write attempt.
BrightnessAfterWrite(ok, brightness, cell) == IF ok THEN brightness ELSE cell

\* query_state
query_state(cell) == [power |-> cell > 0, brightness |-> cell]

\* send_message: length prefix, signature, payload.
SignedFrame(m) ==
    [len |-> SIGNATURE_LEN + EncodedLen(m), sig |-> "device", payload |-> m]

\* send_identify_message: the serialized message behind its own length.
IdentifyFrame ==
    [len |-> EncodedLen(Identify), sig |-> "absent", payload |-> Identify]

NoFrame == [len |-> 0, sig |-> "absent", payload |-> [type |-> "none"]]

Log(s, kind) == IF Len(s) < MaxSent THEN Append(s, kind) ELSE s

NoDispatch ==
    [kind |-> "none", id |-> "none", update |-> NoUpdate, prior |-> NoValue,
     target |-> NoValue, wrote |-> "none", sig |-> "none", parsed |-> FALSE,
     io |-> "none", replies |-> 0, reply |-> query_state(0)]

(***************************************************************************)
(* transport.rs: connection_task and open_connection                       *)
(***************************************************************************)
Init ==
    /\ design \in {"monolithic", "decoupled"}
    /\ pc = "Timer"
    /\ err = "none"
    /\ waited = 0
    /\ attempts = 0
    /\ fails = 0
    /\ message_len = 0
    /\ got = 0
    /\ sentKinds = <<>>
    /\ wire = NoFrame
    /\ duty = STARTUP_DUTY
    /\ current_brightness = INITIAL_BRIGHTNESS
    /\ last = NoDispatch
    /\ incoming = <<>>
    /\ outgoing = <<>>
    /\ a_pc = "receive"
    /\ pending = UpdateNotification(DEVICE_ID, query_state(0))

\* A sleep that grows with the failures of the streak.
Delay_Backoff(n_attempts, n_fails) == RECONNECT_DELAY * (n_fails + 1)

\* The sleep the loop takes before an attempt (line 28).
Delay(n_attempts, n_fails) == RECONNECT_DELAY

Bump(n) == IF n < MaxStreak THEN n + 1 ELSE n

\* An error unwinds out of open_connection (the ? and bail! exits).
Fault(e) ==
    /\ pc' = "Faulted"
    /\ err' = e
    /\ message_len' = 0
    /\ got' = 0
    /\ UNCHANGED <<waited, attempts, fails>>

\* Timer::after(5 s) elapses; open_connection is entered (lines 28-31).
TimerElapses ==
    /\ design = "monolithic"
    /\ pc = "Timer"
    /\ pc' = "Connect"
    /\ waited' = Delay(attempts, fails)
    /\ attempts' = Bump(attempts)
    /\ UNCHANGED <<err, fails, message_len, got>>
    /\ UNCHANGED <<design, wireVars, devVars, appVars>>

\* socket.connect(..).await (lines 45-51).
Connect ==
    /\ design = "monolithic"
    /\ pc = "Connect"
    /\ \E ok \in BOOLEAN :
        IF ok
        THEN /\ pc' = "Identify"
             /\ attempts' = 0
             /\ fails' = 0
             /\ sentKinds' = <<>>
             /\ UNCHANGED <<err, waited, message_len, got, wire>>
        ELSE /\ pc' = "Faulted"
             /\ err' = "failed to connect"
             /\ fails' = Bump(fails)
             /\ UNCHANGED <<waited, attempts, message_len, got, wireVars>>
    /\ UNCHANGED <<design, devVars, appVars>>

\* send_identify_message (line 53, lines 181-194).
SendIdentify ==
    /\ design = "monolithic"
    /\ pc = "Identify"
    /\ \E ok \in BOOLEAN :
        IF ok
        THEN /\ wire' = IdentifyFrame
             /\ sentKinds' = Log(sentKinds, "Identify")
             /\ pc' = "ReadLen"
             /\ UNCHANGED <<err, waited, attempts, fails, message_len, got>>
        ELSE /\ Fault("identify write")
             /\ UNCHANGED wireVars
    /\ UNCHANGED <<design, devVars, appVars>>

\* A u32 length as u32::from_be_bytes yields it, written hi * 2^20 + lo.
Low20 == 1024 * 1024
U32(hi, lo) == [hi |-> hi, lo |-> lo]
U32_MAX == U32(4095, Low20 - 1)

\* Declared lengths a peer can put in the 4-byte prefix.
FrameLens ==
    {U32(0, 0), U32(0, SIGNATURE_LEN - 1), U32(0, SIGNATURE_LEN),
     U32(0, SIGNATURE_LEN + InPayload), U32(0, HEAP_SIZE + 1), U32_MAX}

\* vec![0u8; message_len] (line 85) on the 72 KiB heap of main.rs.
AllocOk(n) == n.hi = 0 /\ n.lo <= HEAP_SIZE

\* socket.read(&mut len_buf) (lines 58-66), then the allocation of
\* handle_message (line 85).
ReadLen ==
    /\ design = "monolithic"
    /\ pc = "ReadLen"
    /\ \/ Fault("size recv")
       \/ Fault("Length delimiter is not a u32!")
       \/ \E n \in FrameLens :
            IF AllocOk(n)
            THEN /\ pc' = "ReadBody"
                 /\ message_len' = n.lo
                 /\ got' = 0
                 /\ UNCHANGED <<err, waited, attempts, fails>>
            ELSE /\ pc' = "Panicked"
                 /\ message_len' = 0
                 /\ UNCHANGED <<err, waited, attempts, fails, got>>
    /\ UNCHANGED <<design, wireVars, devVars, appVars>>

\* read_exact (lines 86-89): the stream delivers part of the body, or fails.
RecvBody ==
    /\ design = "monolithic"
    /\ pc = "ReadBody"
    /\ got < message_len
    /\ \/ \E n \in {ChunkSize, message_len - got} :
            /\ n <= message_len - got
            /\ got' = got + n
            /\ UNCHANGED <<pc, err, waited, attempts, fails, message_len>>
       \/ Fault("data recv")
    /\ UNCHANGED <<design, wireVars, devVars, appVars>>

\* log_error (line 32) and back to the top of the loop.
LogError ==
    /\ design = "monolithic"
    /\ pc = "Faulted"
    /\ pc' = "Timer"
    /\ err' = "none"
    /\ waited' = 0
    /\ UNCHANGED <<attempts, fails, message_len, got>>
    /\ UNCHANGED <<design, wireVars, devVars, appVars>>

(***************************************************************************)
(* transport.rs: handle_message, the monolithic dispatcher                 *)
(***************************************************************************)
\* ecdsa_verify's outcomes: Ok(true), Ok(false), Err.
VerifyResults == {"ok", "mismatch", "error"}

\* Only the Err of ecdsa_verify propagated, its bool dropped.
Verified_UnlessError(v) == v # "error"

\* Line 100: only Ok(true) lets the frame through.
Verified(v) == v = "ok"

\* Lines 109 and 119.
MonoIdMatches(id) == id = DEVICE_ID

\* Line 104: the brightness cell is created anew for the call.
CellAtEntry(cell) == INITIAL_BRIGHTNESS

Malformed == [type |-> "Malformed", device_id |-> DEVICE_ID, update |-> NoUpdate]

\* What serde_json::from_slice can make of n payload bytes.
Payloads(n) == IF n = 0 THEN {Malformed} ELSE {Malformed} \cup MonoMessages

Observed(kind, id, update, v, parsed) ==
    [NoDispatch EXCEPT !.kind = kind, !.id = id, !.update = update, !.sig = v,
                       !.parsed = parsed, !.prior = current_brightness]

\* The receive loop re-entered above the Identify handshake.
NextFrame_Reidentify ==
    /\ pc' = "Identify"
    /\ message_len' = 0
    /\ got' = 0
    /\ UNCHANGED <<err, waited, attempts, fails>>

\* The call returns Ok(()) and the receive loop reads the next length.
NextFrame ==
    /\ pc' = "ReadLen"
    /\ message_len' = 0
    /\ got' = 0
    /\ UNCHANGED <<err, waited, attempts, fails>>

\* An exit of handle_message that touched neither the channel, the cell nor
\* the socket.
Reject(e, kind, id, update, v, parsed) ==
    /\ Fault(e)
    /\ last' = Observed(kind, id, update, v, parsed)
    /\ UNCHANGED <<wireVars, duty, current_brightness>>

\* send_state_update and send_message (lines 167-217).
Reply(state, rec) ==
    \E wr \in BOOLEAN :
        IF wr
        THEN /\ wire' = SignedFrame(UpdateNotification(DEVICE_ID, state))
             /\ sentKinds' = Log(sentKinds, "UpdateNotification")
             /\ last' = [rec EXCEPT !.io = "ok", !.replies = 1, !.reply = state]
             /\ NextFrame
        ELSE /\ Fault("write")
             /\ last' = [rec EXCEPT !.io = "failed"]
             /\ UNCHANGED wireVars

\* update_state (lines 132-158) and the reply of lines 115-116.
MonoUpdate(m, v) ==
    LET cell0 == CellAtEntry(current_brightness)
        nb    == NewBrightness(m.update)
        rec   == Observed("Update", m.device_id, m.update, v, TRUE)
    IN  IF nb = NoValue
        THEN /\ duty' = duty
             /\ current_brightness' = cell0
             /\ Reply(query_state(cell0), rec)
        ELSE \E ok \in SetDutyResults(nb) :
               LET cell1 == BrightnessAfterWrite(ok, nb, cell0)
               IN  /\ duty' = DutyAfter(ok, nb, duty)
                   /\ current_brightness' = cell1
                   /\ Reply(query_state(cell1),
                            [rec EXCEPT !.target = nb,
                                        !.wrote = IF ok THEN "ok" ELSE "fail"])

\* Lines 118-125.
MonoQuery(m, v) ==
    LET cell0 == CellAtEntry(current_brightness)
    IN  /\ duty' = duty
        /\ current_brightness' = cell0
        /\ Reply(query_state(cell0), Observed("Query", m.device_id, NoUpdate, v, TRUE))

\* The match of lines 107-127.
MonoDispatch(m, v) ==
    CASE m.type = "Malformed" ->
            Reject("malformed payload", "Malformed", "none", NoUpdate, v, TRUE)
      [] m.type = "UpdateCommand" ->
            IF ~MonoIdMatches(m.device_id)
            THEN Reject("Update notification does not match this device id!",
                        "UpdateOtherId", m.device_id, m.update, v, TRUE)
            ELSE IF m.update.kind # "LedStrip"
            THEN Reject("Requested state is not a dimmable light state!",
                        "UpdateUnsupported", m.device_id, m.update, v, TRUE)
            ELSE MonoUpdate(m, v)
      [] m.type = "StateQuery" ->
            IF ~MonoIdMatches(m.device_id)
            THEN Reject("State query notification does not match this device id!",
                        "QueryOtherId", m.device_id, NoUpdate, v, TRUE)
            ELSE MonoQuery(m, v)
      [] OTHER ->
            /\ last' = Observed("Other", "none", NoUpdate, v, TRUE)
            /\ NextFrame
            /\ UNCHANGED <<wireVars, duty, current_brightness>>

\* A read that returns as soon as the signature bytes are there.
BodyComplete_OnceSignatureArrived(n_got, n_len) ==
    n_got >= SIGNATURE_LEN \/ n_got = n_len

\* read_exact (lines 86-89) returns once the whole buffer is filled.
BodyComplete(n_got, n_len) == n_got = n_len

\* handle_message once read_exact has filled the buffer (lines 91-129).
HandleMessage ==
    /\ design = "monolithic"
    /\ pc = "ReadBody"
    /\ BodyComplete(got, message_len)
    /\ IF message_len < SIGNATURE_LEN
       THEN Reject("message is not long enough for signature", "ShortFrame",
                   "none", NoUpdate, "none", FALSE)
       ELSE \E v \in VerifyResults :
              IF ~Verified(v)
              THEN Reject("signature does not match!", "BadSignature",
                          "none", NoUpdate, v, FALSE)
              ELSE \E m \in Payloads(message_len - SIGNATURE_LEN) :
                     MonoDispatch(m, v)
    /\ UNCHANGED <<design, appVars>>

(***************************************************************************)
(* light.rs: app_task, the decoupled dispatcher                            *)
(***************************************************************************)
\* build_state with the power taken from the sign test b >= 0.
build_state_PowerFromNonNegative(brightness) ==
    [power |-> brightness >= 0, brightness |-> brightness]

\* build_state (lines 26-35)
build_state(brightness) == [power |-> brightness > 0, brightness |-> brightness]

Clamp(v, lo, hi) == IF v < lo THEN lo ELSE IF v > hi THEN hi ELSE v

\* NumericUpdate::apply_to of the protocol library: an absolute value taken
\* into [min, max] of BRIGHTNESS_PROPS.
ApplyTo(value, cell) == Clamp(value, BRIGHTNESS_MIN, BRIGHTNESS_MAX)

\* The id comparison left out.
AppIdMatches_Unchecked(id) == TRUE

\* Lines 65 and 106.
AppIdMatches(id) == id = DEVICE_ID

\* Power(Off) taken as "leave the light as it is".
AppTarget_OffKeepsBrightness(update, cell) ==
    CASE update.attr = "Power" /\ update.value = 1 -> POWER_ON_VALUE
      [] update.attr = "Power" /\ update.value = 0 -> cell
      [] update.attr = "Brightness" -> ApplyTo(update.value, cell)
      [] OTHER -> NoValue

\* Lines 73-84: the brightness an update asks for, NoValue for an update
\* that is not one of a dimmable light.
AppTarget(update, cell) ==
    CASE update.attr = "Power" /\ update.value = 1 -> POWER_ON_VALUE
      [] update.attr = "Power" /\ update.value = 0 -> POWER_OFF_VALUE
      [] update.attr = "Brightness" -> ApplyTo(update.value, cell)
      [] OTHER -> NoValue

\* Lines 88-92: the cell after the write attempt.
CellAfterWrite(ok, new_brightness, cell) == IF ok THEN new_brightness ELSE cell

ConnectedEvent == [ev |-> "Connected", msg |-> Malformed]
ErrorEvent     == [ev |-> "Error", msg |-> Malformed]
MessageEvent(m) == [ev |-> "Message", msg |-> m]

\* The iteration ends without a send (continue, or an arm without one).
AppSkip(kind, id, update, v) ==
    /\ last' = Observed(kind, id, update, v, v = "ok")
    /\ UNCHANGED <<duty, current_brightness, a_pc, pending>>

\* The iteration reaches transport.outgoing.send(..).await.
AppReply(id, cell, rec) ==
    /\ pending' = UpdateNotification(id, build_state(cell))
    /\ a_pc' = "send"
    /\ last' = rec

\* Lines 64-104.
AppUpdate(m) ==
    LET nb  == AppTarget(m.update, current_brightness)
        rec == Observed("Update", m.device_id, m.update, "ok", TRUE)
    IN  IF nb = NoValue
        THEN AppSkip("UpdateUnsupported", m.device_id, m.update, "ok")
        ELSE \E ok \in SetDutyResults(AsU8(nb)) :
               LET cell1 == CellAfterWrite(ok, nb, current_brightness)
               IN  /\ duty' = DutyAfter(ok, AsU8(nb), duty)
                   /\ current_brightness' = cell1
                   /\ AppReply(DEVICE_ID, cell1,
                               [rec EXCEPT !.target = nb,
                                           !.wrote = IF ok THEN "ok" ELSE "fail"])

\* The match of lines 45-126 on one received event.
AppDispatch(e) ==
    CASE e.ev = "Connected" ->
            /\ AppReply(DEVICE_ID, current_brightness,
                        Observed("Connected", "none", NoUpdate, "none", FALSE))
            /\ UNCHANGED <<duty, current_brightness>>
      [] e.ev = "Error" -> AppSkip("Error", "none", NoUpdate, "none")
      [] e.ev = "Message" /\ e.msg.type = "UpdateCommand" ->
            IF ~AppIdMatches(e.msg.device_id)
            THEN AppSkip("UpdateOtherId", e.msg.device_id, e.msg.update, "ok")
            ELSE AppUpdate(e.msg)
      [] e.ev = "Message" /\ e.msg.type = "StateQuery" ->
            IF ~AppIdMatches(e.msg.device_id)
            THEN AppSkip("QueryOtherId", e.msg.device_id, NoUpdate, "ok")
            ELSE /\ AppReply(e.msg.device_id, current_brightness,
                             Observed("Query", e.msg.device_id, NoUpdate, "ok", TRUE))
                 /\ UNCHANGED <<duty, current_brightness>>
      [] OTHER -> AppSkip("Other", "none", NoUpdate, "ok")

\* transport.incoming.receive().await and the arm it selects.
AppReceive ==
    /\ design = "decoupled"
    /\ a_pc = "receive"
    /\ incoming # <<>>
    /\ incoming' = Tail(incoming)
    /\ AppDispatch(Head(incoming))
    /\ UNCHANGED <<design, connVars, wireVars, outgoing>>

\* A send that gives the notification up when the channel is full.
AppSend_DropWhenFull ==
    /\ design = "decoupled"
    /\ a_pc = "send"
    /\ outgoing' = IF Len(outgoing) < ChannelCap
                   THEN Append(outgoing, pending) ELSE outgoing
    /\ a_pc' = "receive"
    /\ last' = [last EXCEPT !.io = "ok", !.replies = 1,
                            !.reply = pending.new_state]
    /\ UNCHANGED <<design, connVars, wireVars, duty, current_brightness,
                   incoming, pending>>

\* transport.outgoing.send(..).await completes once the channel has room.
AppSend ==
    /\ design = "decoupled"
    /\ a_pc = "send"
    /\ Len(outgoing) < ChannelCap
    /\ outgoing' = Append(outgoing, pending)
    /\ a_pc' = "receive"
    /\ last' = [last EXCEPT !.io = "ok", !.replies = 1,
                            !.reply = pending.new_state]
    /\ UNCHANGED <<design, connVars, wireVars, duty, current_brightness,
                   incoming, pending>>

(***************************************************************************)
(* The library transport_task that main.rs spawns next to app_task         *)
(***************************************************************************)
\* A session is established: Identify leaves, Connected is queued.
TransportConnect ==
    /\ design = "decoupled"
    /\ pc = "Timer"
    /\ Len(incoming) < ChannelCap
    /\ pc' = "ReadLen"
    /\ incoming' = Append(incoming, ConnectedEvent)
    /\ UNCHANGED <<design, err, waited, attempts, fails, message_len, got,
                   wireVars, devVars, outgoing, a_pc, pending>>

\* A verified, decoded frame is queued for app_task.
TransportDeliver ==
    /\ design = "decoupled"
    /\ pc = "ReadLen"
    /\ Len(incoming) < ChannelCap
    /\ \E m \in AppMessages : incoming' = Append(incoming, MessageEvent(m))
    /\ UNCHANGED <<design, connVars, wireVars, devVars, outgoing, a_pc, pending>>

\* The session ends with an error, which is queued for app_task.
TransportFault ==
    /\ design = "decoupled"
    /\ pc = "ReadLen"
    /\ Len(incoming) < ChannelCap
    /\ pc' = "Timer"
    /\ incoming' = Append(incoming, ErrorEvent)
    /\ UNCHANGED <<design, err, waited, attempts, fails, message_len, got,
                   wireVars, devVars, outgoing, a_pc, pending>>

\* The head of the outgoing queue is taken to be written to the socket.
TransportDrain ==
    /\ design = "decoupled"
    /\ pc = "ReadLen"
    /\ outgoing # <<>>
    /\ outgoing' = Tail(outgoing)
    /\ UNCHANGED <<design, connVars, wireVars, devVars, incoming, a_pc, pending>>

AppNext ==
    \/ AppReceive
    \/ AppSend
    \/ TransportConnect
    \/ TransportDeliver
    \/ TransportFault
    \/ TransportDrain

MonoNext ==
    \/ TimerElapses
    \/ Connect
    \/ SendIdentify
    \/ ReadLen
    \/ RecvBody
    \/ HandleMessage
    \/ LogError

Next == MonoNext \/ AppNext

Spec == Init /\ [][Next]_vars

\* The build with the transport loop of transport.rs alone, and the
\* scheduling the executor gives it: a timer that was armed fires, and
\* synchronous code between two awaits runs.
MonoInit == Init /\ design = "monolithic"

MonoFairSpec ==
    /\ MonoInit
    /\ [][MonoNext]_vars
    /\ WF_vars(TimerElapses)
    /\ WF_vars(LogError)

\* The build main.rs makes: transport_task and app_task.
AppInit == Init /\ design = "decoupled"

AppSpec == AppInit /\ [][AppNext]_vars

\* The same build under the executor's scheduling: app_task is polled
\* whenever the await it is suspended on can complete.
AppFairSpec ==
    /\ AppInit
    /\ [][AppNext]_vars
    /\ WF_vars(AppReceive)
    /\ WF_vars(AppSend)

(***************************************************************************)
(* Steps and states the properties speak about                             *)
(***************************************************************************)
Monolithic == design = "monolithic"
Decoupled  == design = "decoupled"

\* handle_message runs on a completely received frame.
MonoHandleStep ==
    /\ Monolithic
    /\ pc = "ReadBody"
    /\ \/ pc' = "ReadLen"
       \/ pc' = "Faulted" /\ err' # "data recv"

\* app_task takes one event off the incoming channel.
AppReceiveStep ==
    /\ Decoupled
    /\ incoming # <<>>
    /\ incoming' = Tail(incoming)

DispatchStep == MonoHandleStep \/ AppReceiveStep

\* The dispatcher is through with the event `last` describes, and the
\* socket did not fail under it.
DispatchDone ==
    /\ last.kind # "none"
    /\ last.io # "failed"
    /\ Decoupled => a_pc = "receive"

\* The update of `last` asks for a brightness and nothing else.
IsBrightnessUpdate(u) ==
    IF Monolithic
    THEN u.kind = "LedStrip" /\ u.power = "none" /\ u.brightness # NoValue
    ELSE u.attr = "Brightness"

RequestedBrightness(u) == IF Monolithic THEN u.brightness ELSE u.value

StateOf(b) == [power |-> b > 0, brightness |-> b]

OtherIdKinds == {"UpdateOtherId", "QueryOtherId"}

\* Nothing reached the hardware, the cell or the peer in this step.
NoEffect ==
    /\ duty' = duty
    /\ current_brightness' = current_brightness
    /\ wire' = wire
    /\ sentKinds' = sentKinds
    /\ outgoing' = outgoing
    /\ pending' = pending
    /\ last'.wrote = "none"
    /\ last'.replies = 0
    /\ Decoupled => a_pc' = "receive"

(***************************************************************************)
(* C1: an UpdateCommand for the local id with a supported update is        *)
(* answered by exactly one UpdateNotification that carries the state after *)
(* the actuation attempt: the target value when the hardware write         *)
(* succeeded, the unchanged prior state when it failed; a failed write     *)
(* never changes the current state and never stops the message flow.       *)
(***************************************************************************)
C1_StateAfterAttempt ==
    (DispatchDone /\ last.kind = "Update") =>
        /\ last.replies = 1
        /\ last.reply.brightness = current_brightness
        /\ last.wrote = "ok" =>
              /\ current_brightness = last.target
              /\ last.reply = StateOf(last.target)
        /\ last.wrote = "fail" =>
              /\ current_brightness = last.prior
              /\ last.reply = StateOf(last.prior)

C1_FlowContinues ==
    (MonoHandleStep /\ last'.kind = "Update" /\ last'.io = "ok") => pc' = "ReadLen"

\* C1: a supported UpdateCommand for the local id gets exactly one
\* notification carrying the target after a successful write and the
\* unchanged prior state after a failed one, and the flow goes on.
C1_OneNotificationWithStateAfterAttempt ==
    [](C1_StateAfterAttempt) /\ [][C1_FlowContinues]_vars

(***************************************************************************)
(* C2: for b in 0..100 and any prior state, a Brightness(b) command for    *)
(* the local id whose hardware write succeeds leaves the current state at  *)
(* brightness b, power (b > 0), and the notification reports that state.   *)
(***************************************************************************)
C2_BrightnessCommand ==
    (/\ last.kind = "Update"
     /\ IsBrightnessUpdate(last.update)
     /\ RequestedBrightness(last.update) \in 0..100
     /\ last.wrote = "ok") =>
        LET b == RequestedBrightness(last.update)
        IN  /\ current_brightness = b
            /\ duty = b
            /\ (Decoupled /\ a_pc = "send") =>
                  pending = UpdateNotification(DEVICE_ID, StateOf(b))
            /\ last.replies = 1 => last.reply = StateOf(b)
            /\ DispatchDone => last.replies = 1

C2_Witness ==
    /\ Decoupled
    /\ DispatchDone
    /\ last.kind = "Update"
    /\ last.update = [attr |-> "Brightness", value |-> 70]
    /\ last.prior = 40
    /\ last.wrote = "ok"
    /\ last.reply = [power |-> TRUE, brightness |-> 70]
    /\ current_brightness = 70

(***************************************************************************)
(* C3: the current brightness is changed only by a successful hardware     *)
(* write; session churn and later messages leave it alone, so a StateQuery *)
(* reports the brightness of the last successful write.                    *)
(***************************************************************************)
C3_ChangedOnlyByWrite ==
    current_brightness' # current_brightness =>
        /\ DispatchStep
        /\ last'.wrote = "ok"
        /\ current_brightness' = last'.target

C3_QueryReportsCurrent ==
    /\ (MonoHandleStep /\ last'.kind = "Query" /\ last'.io = "ok") =>
          last'.reply = StateOf(current_brightness)
    /\ (AppReceiveStep /\ last'.kind = "Query") =>
          pending'.new_state = StateOf(current_brightness)

\* C3: the brightness changes only on a successful write, and a StateQuery
\* reports the brightness held before it.
C3_BrightnessSurvives ==
    [][C3_ChangedOnlyByWrite /\ C3_QueryReportsCurrent]_vars

(***************************************************************************)
(* C4: an UpdateCommand or StateQuery whose device_id is not the local id  *)
(* causes no hardware write, no change of the current state and no         *)
(* outbound message.                                                       *)
(***************************************************************************)
C4_OtherIdStep ==
    (DispatchStep /\ last'.id = OTHER_ID) => NoEffect

\* C4: handling a message for another device id writes no duty, changes no
\* state and emits nothing.
C4_OtherIdHasNoEffect == [][C4_OtherIdStep]_vars

C4_Witness ==
    /\ last.kind \in OtherIdKinds
    /\ last.id = OTHER_ID
    /\ last.prior = 70
    /\ current_brightness = 70
    /\ duty = 70

(***************************************************************************)
(* C5: a device_id mismatch is not an error: the session stays Active and  *)
(* the next frames on the connection are still received and dispatched.    *)
(***************************************************************************)
C5_OtherIdStep ==
    (DispatchStep /\ last'.id = OTHER_ID) =>
        /\ err' = "none"
        /\ Monolithic => pc' = "ReadLen"
        /\ Decoupled => pc' = pc

\* C5: handling a message for another device id raises no error and leaves
\* the session receiving.
C5_MismatchKeepsSession == [][C5_OtherIdStep]_vars

(***************************************************************************)
(* C6: a frame is decoded and dispatched only after its signature has      *)
(* verified; a frame whose signature does not verify is never parsed,      *)
(* causes no hardware write, no state change and no outbound message, and  *)
(* ends the session.                                                       *)
(***************************************************************************)
C6_ParsedOnlyVerified == last.parsed => last.sig = "ok"

C6_BadSignatureStep ==
    (MonoHandleStep /\ last'.sig \in {"mismatch", "error"}) =>
        /\ ~last'.parsed
        /\ NoEffect
        /\ pc' = "Faulted"

\* C6: only verified frames are parsed; an unverified frame changes nothing
\* and faults the session.
C6_VerifyBeforeDecode ==
    [](C6_ParsedOnlyVerified) /\ [][C6_BadSignatureStep]_vars

C6_Witness ==
    /\ Monolithic
    /\ pc = "Faulted"
    /\ err = "signature does not match!"
    /\ last.kind = "BadSignature"
    /\ last.sig = "mismatch"
    /\ ~last.parsed
    /\ last.prior = 70
    /\ current_brightness = 70
    /\ duty = 70

(***************************************************************************)
(* C7: after N consecutive connect failures the loop has attempted the     *)
(* connection N+1 times; every attempt, the first after boot included, is  *)
(* preceded by the fixed 5-second delay, with no growing backoff and no    *)
(* attempt limit; it never stops retrying.                                 *)
(***************************************************************************)
C7_AttemptsCount ==
    /\ (pc = "Connect" /\ fails < MaxStreak) => attempts = fails + 1
    /\ (pc \in {"Timer", "Faulted"} /\ err \in {"none", "failed to connect"}) =>
          attempts = fails

C7_FixedDelay == pc = "Connect" => waited = RECONNECT_DELAY

\* C7: N failures mean N+1 attempts, each after the fixed 5-second delay,
\* and a fault or a pending timer always leads to another attempt.
C7_ReconnectLiveness ==
    /\ [](C7_AttemptsCount /\ C7_FixedDelay)
    /\ (pc \in {"Timer", "Faulted"}) ~> (pc = "Connect")

C7_Witness ==
    /\ pc = "Connect"
    /\ fails = 2
    /\ attempts = 3
    /\ waited = RECONNECT_DELAY

(***************************************************************************)
(* C8: the connection loop has no terminal state: whatever bytes arrive    *)
(* (closed or short length read, any declared length from 0 to 2^32-1, bad *)
(* signature, malformed payload), the receive loop continues or faults and *)
(* reconnects; the process never exits.                                    *)
(***************************************************************************)
LoopPositions == {"Timer", "Connect", "Identify", "ReadLen", "ReadBody", "Faulted"}

\* C8: the connection loop is always at one of its positions; it never ends.
C8_NoTerminalState == pc \in LoopPositions

(***************************************************************************)
(* C9: while fewer body bytes than the declared length have arrived, the   *)
(* receive keeps waiting: no verification, decoding, dispatch, hardware    *)
(* write or reply happens before all declared bytes are there.             *)
(***************************************************************************)
C9_PartialStep ==
    (Monolithic /\ pc = "ReadBody" /\ got < message_len) =>
        /\ UNCHANGED <<devVars, wireVars, appVars>>
        /\ \/ pc' = "ReadBody" /\ message_len' = message_len /\ got' > got
           \/ pc' = "Faulted" /\ err' = "data recv"

\* C9: with the body incomplete, a step only receives more bytes or fails
\* the read.
C9_NoPrematureDispatch == [][C9_PartialStep]_vars

C9_Witness ==
    /\ Monolithic
    /\ pc = "ReadBody"
    /\ got >= SIGNATURE_LEN
    /\ got < message_len
    /\ last.kind = "Update"
    /\ current_brightness = 70

(***************************************************************************)
(* C10: in every session exactly one Identify(local id) is sent, right     *)
(* after the stream connects and before any inbound frame is read; none is *)
(* sent when the connect fails; no acknowledgement is awaited before the   *)
(* receive loop.                                                           *)
(***************************************************************************)
C10_OneIdentifyFirst ==
    (Monolithic /\ pc \in {"ReadLen", "ReadBody"}) =>
        /\ Len(sentKinds) >= 1
        /\ sentKinds[1] = "Identify"
        /\ \A i \in 2..Len(sentKinds) : sentKinds[i] # "Identify"

C10_NothingBeforeIdentify ==
    (Monolithic /\ pc = "Identify") => sentKinds = <<>>

C10_IdentifyStep ==
    /\ (Monolithic /\ pc = "Connect" /\ pc' = "Faulted") => UNCHANGED wireVars
    /\ (Monolithic /\ pc = "Identify" /\ pc' = "Faulted") => UNCHANGED wireVars
    /\ (Monolithic /\ pc = "Identify" /\ pc' # "Identify" /\ pc' # "Faulted") =>
          /\ pc' = "ReadLen"
          /\ sentKinds' = <<"Identify">>
          /\ wire'.payload = [type |-> "Identify", device_id |-> DEVICE_ID]
    /\ (Monolithic /\ pc # "Identify") =>
          \/ sentKinds' = sentKinds
          \/ sentKinds' = <<>>
          \/ sentKinds' = Append(sentKinds, "UpdateNotification")

\* C10: one Identify per session, first on the socket, none on a failed
\* connect, followed at once by the receive loop.
C10_IdentifyHandshake ==
    [](C10_OneIdentifyFirst /\ C10_NothingBeforeIdentify) /\ [][C10_IdentifyStep]_vars

C10_Witness ==
    /\ Monolithic
    /\ pc = "ReadLen"
    /\ sentKinds = <<"Identify", "UpdateNotification">>
    /\ wire.payload.type = "UpdateNotification"

(***************************************************************************)
(* C11: every message written to the stream, Identify as well as           *)
(* UpdateNotification, is a frame whose 4-byte length is SIGNATURE_LEN +   *)
(* payload length (so above SIGNATURE_LEN), followed by the signature made *)
(* with the device key, followed by the payload.                           *)
(***************************************************************************)
Written == wire # NoFrame

\* C11: the frame last written carries length SIGNATURE_LEN + payload
\* length, above SIGNATURE_LEN, and the device's signature.
C11_EveryFrameSigned ==
    Written =>
        /\ wire.len = SIGNATURE_LEN + EncodedLen(wire.payload)
        /\ wire.len > SIGNATURE_LEN
        /\ wire.sig = "device"

(***************************************************************************)
(* C12: every time a session is established the device emits, unasked, one *)
(* UpdateNotification for the local id with reachable = true and the       *)
(* current state; emitting it writes no duty and changes no state.         *)
(***************************************************************************)
\* A session has just been established and nothing was announced in it.
C12_SessionUp ==
    \/ Monolithic /\ pc = "ReadLen" /\ sentKinds = <<"Identify">>
    \/ Decoupled /\ \E i \in DOMAIN incoming : incoming[i].ev = "Connected"

\* A notification left, or is at the send, in that session; or the session
\* ended before it could.
C12_Announced ==
    \/ Monolithic /\ Len(sentKinds) >= 2
    \/ Monolithic /\ pc \notin {"ReadLen", "ReadBody"}
    \/ Decoupled /\ last.kind = "Connected" /\ a_pc = "send"

C12_AnnounceStep ==
    (AppReceiveStep /\ Head(incoming).ev = "Connected") =>
        /\ duty' = duty
        /\ current_brightness' = current_brightness
        /\ a_pc' = "send"
        /\ pending' = UpdateNotification(DEVICE_ID, StateOf(current_brightness))
        /\ pending'.reachable

\* C12: an established session leads to an UpdateNotification with the
\* current state, and producing it touches neither the duty nor the state.
C12_AnnouncesOnSession ==
    /\ [][C12_AnnounceStep]_vars
    /\ C12_SessionUp ~> C12_Announced

(***************************************************************************)
(* C13: a StateQuery for the local id is answered with exactly one         *)
(* UpdateNotification carrying the current state (the value of the last    *)
(* successful write, or zero), with no hardware write and the current      *)
(* state left unchanged.                                                   *)
(***************************************************************************)
C13_QueryStep ==
    (DispatchStep /\ last'.kind = "Query") =>
        /\ duty' = duty
        /\ current_brightness' = current_brightness
        /\ last'.wrote = "none"
        /\ (Monolithic /\ last'.io = "ok") =>
              /\ last'.replies = 1
              /\ last'.reply = StateOf(current_brightness)
              /\ wire'.payload =
                    UpdateNotification(DEVICE_ID, StateOf(current_brightness))
        /\ Decoupled =>
              /\ a_pc' = "send"
              /\ pending' =
                    UpdateNotification(DEVICE_ID, StateOf(current_brightness))

\* C13: handling a StateQuery for the local id writes no duty, keeps the
\* brightness, and replies once with the brightness held before it.
C13_QueryAnsweredWithCurrentState == [][C13_QueryStep]_vars

(***************************************************************************)
(* C14: an UpdateCommand for the local id carrying Power(false) always     *)
(* yields brightness 0 (power off), whatever the prior brightness.         *)
(***************************************************************************)
IsPowerOff(u) ==
    IF Monolithic
    THEN u.kind = "LedStrip" /\ u.power = "false"
    ELSE u.attr = "Power" /\ u.value = 0

C14_PowerOffHandled == last.kind = "Update" /\ IsPowerOff(last.update)

\* C14 as stated: once a Power(false) command for the local id has been
\* handled, the brightness is 0.
C14_PowerOffAlwaysZero == C14_PowerOffHandled => current_brightness = 0

\* C14, amended: a Power(false) command for the local id always asks the
\* channel for duty 0; when that write succeeds brightness and duty are 0
\* and the reply says power off, and when it fails the decoupled loop keeps
\* the prior brightness.
C14_PowerOffTargetsZero ==
    C14_PowerOffHandled =>
        /\ last.target = 0
        /\ last.wrote \in {"ok", "fail"}
        /\ last.wrote = "ok" =>
              /\ current_brightness = 0
              /\ duty = 0
              /\ last.replies = 1 => last.reply = StateOf(0)
              /\ (Decoupled /\ a_pc = "send") => pending.new_state = StateOf(0)
        /\ (last.wrote = "fail" /\ Decoupled) =>
              current_brightness = last.prior

C14_Witness ==
    /\ Decoupled
    /\ DispatchDone
    /\ last.kind = "Update"
    /\ last.update = [attr |-> "Power", value |-> 0]
    /\ last.prior = 70
    /\ last.wrote = "ok"
    /\ last.reply = [power |-> FALSE, brightness |-> 0]
    /\ current_brightness = 0
    /\ duty = 0

(***************************************************************************)
(* C15: an UpdateCommand for the local id carrying Power(true) always      *)
(* yields the same non-zero brightness, whatever the prior state and       *)
(* whichever dispatcher handles it.                                        *)
(***************************************************************************)
\* A command that switches the power on and names no brightness.
IsPowerOn(u) ==
    IF Monolithic
    THEN u.kind = "LedStrip" /\ u.power = "true" /\ u.brightness = NoValue
    ELSE u.attr = "Power" /\ u.value = 1

\* C15: a handled Power(true) command for the local id asks the channel for
\* the one non-zero power-on value, and a successful write leaves the
\* brightness at that value.
C15_PowerOnOneValue ==
    (last.kind = "Update" /\ IsPowerOn(last.update)) =>
        /\ last.target = POWER_ON_VALUE
        /\ last.target > 0
        /\ last.wrote \in {"ok", "fail"}
        /\ last.wrote = "ok" =>
              /\ current_brightness = POWER_ON_VALUE
              /\ duty = POWER_ON_VALUE
              /\ last.replies = 1 => last.reply = StateOf(POWER_ON_VALUE)

(***************************************************************************)
(* C16: a verified message of an unknown or unsupported kind, and an       *)
(* UpdateCommand for the local id whose update is not one of a dimmable    *)
(* light, are never escalated: no hardware write, no state change, no      *)
(* reply, and the session stays Active.                                    *)
(***************************************************************************)
UnsupportedKinds == {"Other", "UpdateUnsupported"}

C16_UnsupportedStep ==
    (DispatchStep /\ last'.sig = "ok" /\ last'.kind \in UnsupportedKinds) =>
        /\ NoEffect
        /\ err' = "none"
        /\ Monolithic => pc' = "ReadLen"
        /\ Decoupled => pc' = pc

\* C16: handling an unsupported message or an unsupported update has no
\* effect on duty, state or peer, raises no error and keeps the session
\* receiving.
C16_UnsupportedNotEscalated == [][C16_UnsupportedStep]_vars

(***************************************************************************)
(* C17: in every reachable state the current brightness, every duty passed *)
(* to the hardware channel and every reported brightness lie in [0,100],   *)
(* also for requests above 100; every reported state has                   *)
(* power = (brightness > 0) and reachable = true.                          *)
(***************************************************************************)
Percent == BRIGHTNESS_MIN..BRIGHTNESS_MAX

ReportedOk(state) ==
    /\ state.brightness \in Percent
    /\ state.power = (state.brightness > 0)

NotificationOk(n) ==
    n.type = "UpdateNotification" => n.reachable /\ ReportedOk(n.new_state)

\* C17: brightness, channel duty, every duty handed to set_duty and every
\* reported brightness stay within 0..100, and every notification has
\* power = (brightness > 0) and reachable = TRUE.
C17_BrightnessInRange ==
    /\ current_brightness \in Percent
    /\ duty \in Percent
    /\ last.wrote # "none" => last.target \in Percent
    /\ last.replies = 1 => ReportedOk(last.reply)
    /\ Written => NotificationOk(wire.payload)
    /\ NotificationOk(pending)
    /\ \A i \in DOMAIN outgoing : NotificationOk(outgoing[i])

C17_Witness ==
    /\ Monolithic
    /\ DispatchDone
    /\ last.kind = "Update"
    /\ last.update.brightness = 130
    /\ last.update.power = "true"
    /\ last.target = 100
    /\ last.wrote = "ok"
    /\ current_brightness = 100
    /\ wire.payload.new_state = [power |-> TRUE, brightness |-> 100]

(***************************************************************************)
(* transport.rs: the frames as bytes, as the send functions build them and *)
(* as the receive loop takes them apart                                    *)
(***************************************************************************)
\* u32::to_be_bytes and u32::from_be_bytes.
to_be_bytes(n) ==
    <<(n \div (256 * 256 * 256)) % 256, (n \div (256 * 256)) % 256,
      (n \div 256) % 256, n % 256>>

from_be_bytes(b) == ((b[1] * 256 + b[2]) * 256 + b[3]) * 256 + b[4]

TypeCode(t) == IF t = "Identify" THEN 73 ELSE 85
IdCode(id) == IF id = DEVICE_ID THEN 1 ELSE 2
IdOf(c) == IF c = 1 THEN DEVICE_ID ELSE OTHER_ID
BoolCode(b) == IF b THEN 1 ELSE 0

Fields(m) ==
    IF m.type = "Identify"
    THEN <<TypeCode(m.type), IdCode(m.device_id)>>
    ELSE <<TypeCode(m.type), IdCode(m.device_id), BoolCode(m.reachable),
           BoolCode(m.new_state.power), m.new_state.brightness>>

\* serde_json::to_vec: the fields of the message, then the rest of its text.
to_vec(m) == Fields(m) \o [i \in 1..(EncodedLen(m) - Len(Fields(m))) |-> 32]

\* serde_json::from_slice.
from_slice(data) ==
    IF Len(data) = IdentifyLen /\ data[1] = TypeCode("Identify")
    THEN [type |-> "Identify", device_id |-> IdOf(data[2])]
    ELSE IF Len(data) = NotifyLen /\ data[1] = TypeCode("UpdateNotification")
    THEN [type |-> "UpdateNotification", device_id |-> IdOf(data[2]),
          reachable |-> data[3] = 1,
          new_state |-> [power |-> data[4] = 1, brightness |-> data[5]]]
    ELSE [type |-> "Malformed"]

\* A checksum over data[lo..hi] that weighs every byte by its position.
RECURSIVE DigestOf(_, _, _)
DigestOf(data, lo, hi) ==
    IF lo > hi THEN 0
    ELSE IF lo = hi THEN (data[lo] * ((lo % 7) + 1)) % 256
    ELSE LET mid == (lo + hi) \div 2
         IN  (DigestOf(data, lo, mid) + DigestOf(data, mid + 1, hi)) % 256

Digest(data) == DigestOf(data, 1, Len(data))

\* ecdsa_sign with the device key: SIGNATURE_LEN bytes that depend on the
\* payload.
ecdsa_sign(payload) ==
    LET digest == Digest(payload)
    IN  [i \in 1..SIGNATURE_LEN |-> (digest + i) % 256]

\* ecdsa_verify with the public key of the same pair.
ecdsa_verify(data, sig) == sig = ecdsa_sign(data)

\* send_message, lines 201-209.
send_message(message) ==
    LET payload   == to_vec(message)
        sig       == ecdsa_sign(payload)
        total_len == Len(sig) + Len(payload)
    IN  to_be_bytes(total_len) \o sig \o payload

\* send_identify_message, lines 182-186.
send_identify_message ==
    LET data == to_vec(Identify)
    IN  to_be_bytes(Len(data)) \o data

\* The bytes the last socket write put on the stream.
WireBytes ==
    IF wire.payload.type = "Identify"
    THEN send_identify_message
    ELSE send_message(wire.payload)

Failed(e) == [status |-> e, message |-> [type |-> "none"]]

\* The receive of lines 57-106 applied to the bytes of one frame.
receive(bytes) ==
    IF Len(bytes) < 4 THEN Failed("Length delimiter is not a u32!")
    ELSE LET body_len == from_be_bytes(SubSeq(bytes, 1, 4))
         IN  IF Len(bytes) - 4 < body_len THEN Failed("data recv")
             ELSE LET buf == SubSeq(bytes, 5, 4 + body_len)
                  IN  IF body_len < SIGNATURE_LEN
                      THEN Failed("message is not long enough for signature")
                      ELSE LET sig  == SubSeq(buf, 1, SIGNATURE_LEN)
                               data == SubSeq(buf, SIGNATURE_LEN + 1, body_len)
                           IN  IF ~ecdsa_verify(data, sig)
                               THEN Failed("signature does not match!")
                               ELSE [status |-> "ok", message |-> from_slice(data)]

(***************************************************************************)
(* C18: framing round trip: the frame built by send, read back by its      *)
(* 4-byte length, split at SIGNATURE_LEN, verified and decoded, gives the  *)
(* message again, for every message shape the device sends, Identify       *)
(* included.                                                               *)
(***************************************************************************)
\* C18: receiving the bytes of the frame last written succeeds and yields
\* the message that was sent.
C18_FramingRoundTrip ==
    Written =>
        \A bytes \in {WireBytes} :
            /\ Len(bytes) = 4 + wire.len
            /\ receive(bytes) = [status |-> "ok", message |-> wire.payload]

\* The round trip of the frames send_message builds.
C18_NotificationRoundTrip ==
    (Written /\ wire.sig = "device") =>
        \A bytes \in {WireBytes} :
            /\ Len(bytes) = 4 + wire.len
            /\ receive(bytes) = [status |-> "ok", message |-> wire.payload]

(***************************************************************************)
(* C19: the reported state matches physical reality: from boot onward the  *)
(* brightness carried by any UpdateNotification equals the duty percentage *)
(* applied to the PWM channel (its startup duty, or the last duty written  *)
(* successfully).                                                          *)
(***************************************************************************)
\* C19: the notification at the send, and the one last sent, carry the
\* duty the channel has.
C19_ReportMatchesDuty ==
    /\ (Decoupled /\ a_pc = "send") => pending.new_state.brightness = duty
    /\ last.replies = 1 => last.reply.brightness = duty

(***************************************************************************)
(* C20: the device-control loop handles inbound events one at a time in    *)
(* FIFO order and drops none; with the outbound channel full it suspends   *)
(* on the send instead of discarding the notification, so notifications    *)
(* leave in the order of their events; and provided the transport keeps    *)
(* draining the outbound channel, every accepted command is eventually     *)
(* answered.                                                               *)
(***************************************************************************)
\* Events app_task answers with a notification.
Answerable(e) ==
    \/ e.ev = "Connected"
    \/ /\ e.ev = "Message"
       /\ e.msg.device_id = DEVICE_ID
       /\ \/ e.msg.type = "StateQuery"
          \/ e.msg.type = "UpdateCommand" /\ e.msg.update.attr \in {"Power", "Brightness"}

\* The incoming channel is a FIFO: events join at the tail, and only the
\* head is taken, by app_task at its receive.
C20_IncomingFifo ==
    incoming' # incoming =>
        \/ /\ a_pc = "receive"
           /\ incoming # <<>>
           /\ incoming' = Tail(incoming)
        \/ /\ Len(incoming') = Len(incoming) + 1
           /\ SubSeq(incoming', 1, Len(incoming)) = incoming

\* The event taken is handled: it is recorded, and an answerable one puts
\* app_task at the send of its notification.
C20_NoneDropped ==
    AppReceiveStep =>
        /\ last'.kind # "none"
        /\ last'.replies = 0
        /\ IF Answerable(Head(incoming))
           THEN a_pc' = "send" /\ pending'.device_id = DEVICE_ID
           ELSE a_pc' = "receive" /\ pending' = pending
        /\ outgoing' = outgoing

\* At the send, the notification is kept until it joins the tail of the
\* outgoing channel; a full channel keeps app_task at the send.
C20_Backpressure ==
    (Decoupled /\ a_pc = "send") =>
        /\ pending' = pending
        /\ \/ a_pc' = "send" /\ outgoing' = outgoing
           \/ a_pc' = "send" /\ outgoing # <<>> /\ outgoing' = Tail(outgoing)
           \/ /\ a_pc' = "receive"
              /\ Len(outgoing) < ChannelCap
              /\ outgoing' = Append(outgoing, pending)
              /\ last'.replies = 1

\* The outgoing channel is a FIFO fed by app_task alone.
C20_OutgoingFifo ==
    outgoing' # outgoing =>
        \/ outgoing # <<>> /\ outgoing' = Tail(outgoing)
        \/ a_pc = "send" /\ outgoing' = Append(outgoing, pending)

\* The transport keeps draining: the outgoing channel has room again and
\* again.
C20_Drained == []<>(Len(outgoing) < ChannelCap)

====
